---- MODULE Spec2Model ----
(***************************************************************************)
(* Tile-parallel renderer of S1NU5-Graphics (Main/src/Renderer.cpp).       *)
(*                                                                         *)
(* Renderer::Render fills the framebuffer, then runs one task per tile in  *)
(* an OpenMP parallel-for; each task computes its RenderBounds, runs       *)
(* RenderWorker over the pixels of the bounds, increments finishedTiles    *)
(* and logs the progress.  The tasks of one pass are run by a team of      *)
(* NumThreads threads, each taking any tile no thread has taken yet.       *)
(*                                                                         *)
(* Numbers.  uint32_t values stay far below 2^32 within the bounds of the  *)
(* model, so they are plain naturals.  A float is a fixed-point integer:   *)
(* a Vector3 is a triple counted in units of 1/(255*UnitLight), a light    *)
(* value is counted in units of 1/UnitLight, and a packed 0xAARRGGBB       *)
(* colour is the tuple <<AA, RR, GG, BB>> of its four bytes.               *)
(***************************************************************************)
EXTENDS Integers, Sequences, FiniteSets, TLC

(***************************************************************************)
(* Bounds of the model.                                                    *)
(***************************************************************************)
MaxSize == 3
MaxTilesPerRow == 2
MaxSamplesPerPixel == 3
MaxRenderables == 1
MaxPasses == 2
NumThreads == 2
MaxUncheckedSize == 2
MaxSceneLen == 2
MaxFairSize == 2

(***************************************************************************)
(* Program constants.                                                      *)
(***************************************************************************)
InitialSamples == 2
FloatMax == 2147483647
UnitLight == 10
Ambient == 1
SmallFloat == 0
ByteMax == 255
BackgroundColor == <<255, 0, 0, 0>>

VARIABLES
    sizeX,                      \* colorBuffer->GetSizeX()
    sizeY,                      \* colorBuffer->GetSizeY()
    tilesPerRow,
    samplesPerPixel,
    bVariableSamplesPerPixel,
    renderables,                \* sequence of registered renderables
    colorBuffer,                \* [<<x, y>> -> packed colour]
    colorBufferMutex,           \* set of tile tasks holding the mutex (at most one)
    finishedTiles,              \* std::atomic<uint32_t> of the running pass
    tile,                       \* per tile task: position and locals
    progress,                   \* progress notifications of the running pass, in emission order
    renderPc,                   \* "idle", "parallel" or "returned"
    pass,                       \* number of Render calls made
    prevBuffer,                 \* framebuffer as the previous Render call left it
    setPixLog                   \* [<<x, y>> -> tiles that called SetPix on it in this pass]

vars == <<sizeX, sizeY, tilesPerRow, samplesPerPixel, bVariableSamplesPerPixel,
          renderables, colorBuffer, colorBufferMutex, finishedTiles, tile,
          progress, renderPc, pass, prevBuffer, setPixLog>>

config == <<sizeX, sizeY, tilesPerRow, samplesPerPixel, bVariableSamplesPerPixel>>

(***************************************************************************)
(* Vector3 (YetAnotherMathLib/include/Vector3.h).                          *)
(***************************************************************************)
Vector3(x) == <<x, x, x>>

VecAdd(a, b) == <<a[1] + b[1], a[2] + b[2], a[3] + b[3]>>

VecSub(a, b) == <<a[1] - b[1], a[2] - b[2], a[3] - b[3]>>

VecMul(a, scalar) == <<(a[1] * scalar) \div UnitLight,
                       (a[2] * scalar) \div UnitLight,
                       (a[3] * scalar) \div UnitLight>>

VecDiv(a, scalar) == <<a[1] \div scalar, a[2] \div scalar, a[3] \div scalar>>

SquaredLength(a) == a[1] * a[1] + a[2] * a[2] + a[3] * a[3]

\* Length() > SmallFloat, compared on the squares (both sides are >= 0).
LengthExceeds(a, eps) == SquaredLength(a) > eps * eps

Min(a, b) == IF a < b THEN a ELSE b

Max(a, b) == IF a > b THEN a ELSE b

(***************************************************************************)
(* Collaborators outside Renderer.cpp: colours, the camera, renderables.   *)
(***************************************************************************)
\* Color::ToVector: a byte channel c is c/255.
ToVector(color) == <<color[1] * UnitLight, color[2] * UnitLight, color[3] * UnitLight>>

Channel(v) == Min(ByteMax, Max(0, v \div UnitLight))

\* Color::FromVector(...).hex: opaque 0xAARRGGBB.
FromVector(v) == <<ByteMax, Channel(v[1]), Channel(v[2]), Channel(v[3])>>

\* Camera::GetRay: a pure function of the pixel coordinates.
GetRay(x, y) == <<x, y>>

\* A renderable is hit by the rays of its silhouette, at one distance,
\* with one value of Dot(normal, -lightDir.Normal()) and one material colour.
RedWall == [silhouette |-> {r \in (0 .. MaxSize) \X (0 .. MaxSize) : r[1] = 0 \/ r[2] = 2},
            distance |-> 5, lightDotNorm |-> 4, color |-> <<200, 100, 0>>]

BlueDisc == [silhouette |-> {r \in (0 .. MaxSize) \X (0 .. MaxSize) : r[2] <= 1},
             distance |-> 3, lightDotNorm |-> -3, color |-> <<0, 50, 250>>]

Catalogue == {RedWall, BlueDisc}

\* A renderable every ray hits, as far away as RedWall.
GreenPlane == [silhouette |-> (0 .. MaxSize) \X (0 .. MaxSize),
               distance |-> 5, lightDotNorm |-> 9, color |-> <<0, 200, 0>>]

\* The scenes of up to MaxSceneLen renderables.
Scenes == UNION {[1 .. n -> Catalogue \cup {GreenPlane}] : n \in 0 .. MaxSceneLen}

\* Renderable::Trace(ray, hitInfo)
Trace(renderable, ray) ==
    [hit |-> ray \in renderable.silhouette,
     distance |-> renderable.distance,
     lightDotNorm |-> renderable.lightDotNorm,
     color |-> renderable.color]

(***************************************************************************)
(* Renderer::SamplePixel                                                   *)
(***************************************************************************)
\* Variant: a hit as close as the closest so far replaces it.
RECURSIVE ClosestHitOrEqual(_, _, _, _)
ClosestHitOrEqual(rs, k, ray, acc) ==
    IF k > Len(rs) THEN acc
    ELSE LET hitInfo == Trace(rs[k], ray)
         IN  IF hitInfo.hit /\ hitInfo.distance <= acc.closestHit.distance
             THEN ClosestHitOrEqual(rs, k + 1, ray,
                                    [closestHit |-> hitInfo, wasIntersection |-> TRUE])
             ELSE ClosestHitOrEqual(rs, k + 1, ray, acc)

\* closestHit and wasIntersection before the loop over the renderables.
NoHitYet == [closestHit |-> [hit |-> FALSE, distance |-> FloatMax,
                             lightDotNorm |-> 0, color |-> <<0, 0, 0>>],
             wasIntersection |-> FALSE]

RECURSIVE ClosestHit(_, _, _, _)
ClosestHit(rs, k, ray, acc) ==
    IF k > Len(rs) THEN acc
    ELSE LET hitInfo == Trace(rs[k], ray)
         IN  IF hitInfo.hit /\ hitInfo.distance < acc.closestHit.distance
             THEN ClosestHit(rs, k + 1, ray,
                             [closestHit |-> hitInfo, wasIntersection |-> TRUE])
             ELSE ClosestHit(rs, k + 1, ray, acc)

\* Variant: a ray that hits nothing is shaded white.
NoIntersectionWhite == Vector3(ByteMax * UnitLight)

NoIntersectionColor == Vector3(0)

SamplePixel(rs, y, x) ==
    LET ray == GetRay(x, y)
        found == ClosestHit(rs, 1, ray, NoHitYet)
    IN  IF found.wasIntersection
        THEN LET objColor == ToVector(found.closestHit.color)
                 lightDotNorm == Max(0, found.closestHit.lightDotNorm)
                 lightValue == Min(UnitLight, lightDotNorm + Ambient)
             IN  VecMul(objColor, lightValue)
        ELSE NoIntersectionColor

(***************************************************************************)
(* Tiles and RenderBounds (Renderer::Render, the loop body).               *)
(***************************************************************************)
TilesNum(tpr) == tpr * tpr

Tiles == 0 .. (TilesNum(tilesPerRow) - 1)

Pixels == (0 .. (sizeX - 1)) \X (0 .. (sizeY - 1))

\* RenderBounds::RenderBounds()
DefaultBounds == [minX |-> 0, minY |-> 0, maxX |-> 0, maxY |-> 0]

\* Variant: minY is derived from the tile's column.
ComputeBoundsRowFromColumn(tileID, sx, sy, tpr) ==
    LET tileY == tileID \div tpr
        tileX == tileID - tileY * tpr
        minX == (tileX * sx) \div tpr
        minY == (tileX * sy) \div tpr
    IN  [minX |-> minX, minY |-> minY,
         maxX |-> minX + sx \div tpr,
         maxY |-> minY + sy \div tpr]

\* Variant: the upper bounds are one past the tile.
ComputeBoundsOnePast(tileID, sx, sy, tpr) ==
    LET tileY == tileID \div tpr
        tileX == tileID - tileY * tpr
        minX == (tileX * sx) \div tpr
        minY == (tileY * sy) \div tpr
    IN  [minX |-> minX, minY |-> minY,
         maxX |-> minX + sx \div tpr + 1,
         maxY |-> minY + sy \div tpr + 1]

ComputeBounds(tileID, sx, sy, tpr) ==
    LET tileY == tileID \div tpr
        tileX == tileID - tileY * tpr
        minX == (tileX * sx) \div tpr
        minY == (tileY * sy) \div tpr
    IN  [minX |-> minX, minY |-> minY,
         maxX |-> minX + sx \div tpr,
         maxY |-> minY + sy \div tpr]

InBounds(b, p) ==
    /\ b.minX <= p[1] /\ p[1] < b.maxX
    /\ b.minY <= p[2] /\ p[2] < b.maxY

FillColor(color) == [p \in Pixels |-> color]

PendingTile ==
    [pc |-> "pending", renderBounds |-> DefaultBounds, i |-> 0, j |-> 0,
     numSamples |-> 0, samples |-> <<>>, finalColor |-> Vector3(0),
     extraBranch |-> FALSE, indexed |-> {}, ray |-> <<0, 0>>, read |-> 0]

\* A tile task whose worker has returned: the locals of RenderWorker are gone.
AfterWorker(b) == [PendingTile EXCEPT !.pc = "increment", !.renderBounds = b]

Running == {t \in Tiles : tile[t].pc \notin {"pending", "done"}}

(***************************************************************************)
(* Renderer::RenderWorker, one pixel: lines 67-87.                         *)
(***************************************************************************)
\* Outcomes of the condition of line 77.  samples[i] is indexed by the row i:
\* a row at or beyond samplesPerPixel reads past the vector, and the
\* comparison can go either way.
ExtraBranchOutcomes(bVariable, samples, i, spp) ==
    IF ~bVariable THEN {TRUE}
    ELSE IF i < spp THEN {LengthExceeds(VecSub(samples[0], samples[i]), SmallFloat)}
    ELSE BOOLEAN

\* Variant: the loop of line 78 runs up to the capacity of the accumulator.
ExtraLoopBoundCapacity(numSamples, spp) == spp

\* The bound of the loop of line 78 is numSamples, which its body increments.
ExtraLoopBound(numSamples, spp) == numSamples

\* for (int sampleID = 2; sampleID < numSamples; ++sampleID) { ...; numSamples++; }
RECURSIVE ExtraSampleLoop(_, _, _, _)
ExtraSampleLoop(sampleID, acc, spp, value) ==
    IF sampleID < ExtraLoopBound(acc.numSamples, spp)
    THEN ExtraSampleLoop(sampleID + 1,
                         [numSamples |-> acc.numSamples + 1,
                          samples |-> [acc.samples EXCEPT ![sampleID] = value]],
                         spp, value)
    ELSE acc

\* samples[sampleID]; past the end of the vector the read yields outOfRange.
ReadSample(samples, sampleID, outOfRange) ==
    IF sampleID \in DOMAIN samples THEN samples[sampleID] ELSE outOfRange

\* What a read past the end of the vector can yield in the summation: only a
\* vector shorter than the two initial samples is read there, and the read
\* finds the sample written past the end or something else.
OutOfRangeReads(spp, value) ==
    IF InitialSamples <= spp THEN {Vector3(0)} ELSE {Vector3(0), value}

\* for (sampleID = 0; sampleID < numSamples; ++sampleID) finalColor += samples[sampleID];
RECURSIVE SumSamples(_, _, _, _)
SumSamples(samples, sampleID, numSamples, outOfRange) ==
    IF sampleID < numSamples
    THEN VecAdd(ReadSample(samples, sampleID, outOfRange),
                SumSamples(samples, sampleID + 1, numSamples, outOfRange))
    ELSE Vector3(0)

\* The locals of RenderWorker once the pixel (j, i) is summed, the extra
\* branch of line 77 taken or not.
PixelLocals(rs, spp, bVariable, i, j, takeExtra, outOfRange) ==
    LET value == SamplePixel(rs, i, j)
        cleared == [k \in 0 .. (spp - 1) |-> Vector3(0)]
        initial == [numSamples |-> InitialSamples,
                    samples |-> [k \in 0 .. (spp - 1) |->
                                    IF k < InitialSamples THEN value ELSE cleared[k]]]
        taken == IF takeExtra
                 THEN ExtraSampleLoop(InitialSamples, initial, spp, value)
                 ELSE initial
    IN  [numSamples |-> taken.numSamples,
         samples |-> taken.samples,
         finalColor |-> SumSamples(taken.samples, 0, taken.numSamples, outOfRange),
         extraBranch |-> takeExtra,
         \* the indices samples[] was subscripted with: lines 73, 77, 79 and 86
         indexed |-> (0 .. (InitialSamples - 1))
                        \cup (IF bVariable THEN {0, i} ELSE {})
                        \cup (InitialSamples .. (taken.numSamples - 1))
                        \cup (0 .. (taken.numSamples - 1)),
         \* the ray SamplePixel(camera, i, j) asked the camera for
         ray |-> GetRay(j, i)]

TwoInitialSamples(rs, spp, i, j) ==
    LET value == SamplePixel(rs, i, j)
    IN  [k \in 0 .. (spp - 1) |-> IF k < InitialSamples THEN value ELSE Vector3(0)]

(***************************************************************************)
(* Initial state: a constructed and configured Renderer, nothing rendered. *)
(***************************************************************************)
Constructed(sizes, tiles, spps, scenes) ==
    /\ sizeX \in sizes
    /\ sizeY \in sizes
    /\ tilesPerRow \in tiles
    /\ samplesPerPixel \in spps
    /\ bVariableSamplesPerPixel \in BOOLEAN
    /\ renderables \in scenes
    /\ colorBuffer = [p \in (0 .. (sizeX - 1)) \X (0 .. (sizeY - 1)) |-> <<0, 0, 0, 0>>]
    /\ colorBufferMutex = {}
    /\ finishedTiles = 0
    /\ tile = [t \in 0 .. (TilesNum(tilesPerRow) - 1) |-> PendingTile]
    /\ progress = <<>>
    /\ renderPc = "idle"
    /\ pass = 0
    /\ prevBuffer = colorBuffer
    /\ setPixLog = [p \in (0 .. (sizeX - 1)) \X (0 .. (sizeY - 1)) |-> <<>>]

\* A configuration with at least one pixel, one tile and the two initial samples.
Init == Constructed(1 .. MaxSize, 1 .. MaxTilesPerRow,
                    InitialSamples .. MaxSamplesPerPixel, {<<>>})

\* Any configuration the constructor and the tuning knobs accept: the code
\* checks none of them.
InitAnyConfig == Constructed(0 .. MaxUncheckedSize, 0 .. MaxTilesPerRow,
                             1 .. MaxSamplesPerPixel, {<<>>})

\* The configurations of Init on the framebuffers of up to MaxFairSize a side.
InitFair == Constructed(1 .. MaxFairSize, 1 .. MaxTilesPerRow,
                        InitialSamples .. MaxSamplesPerPixel, {<<>>})

\* One tile, the two initial samples, and any scene of Scenes already registered.
InitShader == Constructed(1 .. MaxSize, {1}, {InitialSamples}, Scenes)

(***************************************************************************)
(* Renderer::AddRenderable, called before rendering begins.                *)
(***************************************************************************)
AddRenderable(renderable) ==
    /\ renderPc = "idle"
    /\ Len(renderables) < MaxRenderables
    /\ renderables' = Append(renderables, renderable)
    /\ UNCHANGED <<config, colorBuffer, colorBufferMutex, finishedTiles, tile,
                   progress, renderPc, pass, prevBuffer, setPixLog>>

(***************************************************************************)
(* Renderer::Render up to the parallel loop: lines 28-39.                  *)
(***************************************************************************)
RenderBegin ==
    /\ renderPc \in {"idle", "returned"}
    /\ pass < MaxPasses
    /\ colorBuffer' = FillColor(BackgroundColor)
    /\ finishedTiles' = 0
    /\ tile' = [t \in Tiles |-> PendingTile]
    /\ progress' = <<>>
    /\ renderPc' = "parallel"
    /\ pass' = pass + 1
    /\ prevBuffer' = colorBuffer
    /\ setPixLog' = [p \in Pixels |-> <<>>]
    /\ UNCHANGED <<config, renderables, colorBufferMutex>>

(***************************************************************************)
(* One iteration of the parallel loop, lines 40-54, and RenderWorker,      *)
(* lines 61-95, step by step.                                              *)
(***************************************************************************)
\* Variant: the framebuffer is filled by every tile task, not once before the loop.
StartTileRefilling(t) ==
    /\ renderPc = "parallel"
    /\ tile[t].pc = "pending"
    /\ Cardinality(Running) < NumThreads
    /\ LET b == ComputeBounds(t, sizeX, sizeY, tilesPerRow)
       IN  tile' = [tile EXCEPT ![t] =
                IF b.minY < b.maxY /\ b.minX < b.maxX
                THEN [@ EXCEPT !.renderBounds = b, !.i = b.minY, !.j = b.minX,
                               !.pc = "sample"]
                ELSE AfterWorker(b)]
    /\ colorBuffer' = FillColor(BackgroundColor)
    /\ UNCHANGED <<config, renderables, colorBufferMutex,
                   finishedTiles, progress, renderPc, pass, prevBuffer, setPixLog>>

\* A free thread of the team takes tile t: lines 41-48 and the loop heads
\* of lines 65-66.
StartTile(t) ==
    /\ renderPc = "parallel"
    /\ tile[t].pc = "pending"
    /\ Cardinality(Running) < NumThreads
    /\ LET b == ComputeBounds(t, sizeX, sizeY, tilesPerRow)
       IN  tile' = [tile EXCEPT ![t] =
                IF b.minY < b.maxY /\ b.minX < b.maxX
                THEN [@ EXCEPT !.renderBounds = b, !.i = b.minY, !.j = b.minX,
                               !.pc = "sample"]
                ELSE AfterWorker(b)]
    /\ UNCHANGED <<config, renderables, colorBuffer, colorBufferMutex,
                   finishedTiles, progress, renderPc, pass, prevBuffer, setPixLog>>

\* Variant: the lock is taken before the pixel is sampled and held up to the write.
SampleStepUnderLock(t) ==
    /\ tile[t].pc = "sample"
    /\ colorBufferMutex = {}
    /\ colorBufferMutex' = {t}
    /\ \E takeExtra \in ExtraBranchOutcomes(bVariableSamplesPerPixel,
                            TwoInitialSamples(renderables, samplesPerPixel,
                                              tile[t].i, tile[t].j),
                            tile[t].i, samplesPerPixel),
          outOfRange \in OutOfRangeReads(samplesPerPixel,
                            SamplePixel(renderables, tile[t].i, tile[t].j)) :
          \E l \in {PixelLocals(renderables, samplesPerPixel, bVariableSamplesPerPixel,
                                tile[t].i, tile[t].j, takeExtra, outOfRange)} :
              tile' = [tile EXCEPT ![t] =
                   [@ EXCEPT !.numSamples = l.numSamples, !.samples = l.samples,
                             !.finalColor = l.finalColor, !.extraBranch = l.extraBranch,
                             !.indexed = l.indexed, !.ray = l.ray,
                             !.pc = "setpix"]]
    /\ UNCHANGED <<config, renderables, colorBuffer,
                   finishedTiles, progress, renderPc, pass, prevBuffer, setPixLog>>

\* Lines 67-87: clear the accumulator, sample, decide, sum.
SampleStep(t) ==
    /\ tile[t].pc = "sample"
    /\ \E takeExtra \in ExtraBranchOutcomes(bVariableSamplesPerPixel,
                            TwoInitialSamples(renderables, samplesPerPixel,
                                              tile[t].i, tile[t].j),
                            tile[t].i, samplesPerPixel),
          outOfRange \in OutOfRangeReads(samplesPerPixel,
                            SamplePixel(renderables, tile[t].i, tile[t].j)) :
          \E l \in {PixelLocals(renderables, samplesPerPixel, bVariableSamplesPerPixel,
                                tile[t].i, tile[t].j, takeExtra, outOfRange)} :
              tile' = [tile EXCEPT ![t] =
                   [@ EXCEPT !.numSamples = l.numSamples, !.samples = l.samples,
                             !.finalColor = l.finalColor, !.extraBranch = l.extraBranch,
                             !.indexed = l.indexed, !.ray = l.ray,
                             !.pc = "lock"]]
    /\ UNCHANGED <<config, renderables, colorBuffer, colorBufferMutex,
                   finishedTiles, progress, renderPc, pass, prevBuffer, setPixLog>>

\* Variant: the worker goes on to write without waiting for the mutex.
LockWithoutWaiting(t) ==
    /\ tile[t].pc = "lock"
    /\ colorBufferMutex' = {t}
    /\ tile' = [tile EXCEPT ![t].pc = "setpix"]
    /\ UNCHANGED <<config, renderables, colorBuffer, finishedTiles, progress,
                   renderPc, pass, prevBuffer, setPixLog>>

\* Line 90: std::scoped_lock lock{colorBufferMutex}
LockColorBuffer(t) ==
    /\ tile[t].pc = "lock"
    /\ colorBufferMutex = {}
    /\ colorBufferMutex' = {t}
    /\ tile' = [tile EXCEPT ![t].pc = "setpix"]
    /\ UNCHANGED <<config, renderables, colorBuffer, finishedTiles, progress,
                   renderPc, pass, prevBuffer, setPixLog>>

\* Variant: SetPix is given the row as x and the column as y.
SetPixTransposed(t) ==
    /\ tile[t].pc = "setpix"
    /\ LET b == tile[t].renderBounds
           p == <<tile[t].i, tile[t].j>>
           hex == FromVector(VecDiv(tile[t].finalColor, tile[t].numSamples))
       IN  /\ colorBuffer' = [colorBuffer EXCEPT ![p] = hex]
           /\ setPixLog' = [setPixLog EXCEPT ![p] = Append(@, t)]
           /\ tile' = [tile EXCEPT ![t] =
                  IF tile[t].j + 1 < b.maxX
                  THEN [@ EXCEPT !.j = @ + 1, !.pc = "sample"]
                  ELSE IF tile[t].i + 1 < b.maxY
                  THEN [@ EXCEPT !.i = @ + 1, !.j = b.minX, !.pc = "sample"]
                  ELSE AfterWorker(b)]
    /\ colorBufferMutex' = colorBufferMutex \ {t}
    /\ UNCHANGED <<config, renderables, finishedTiles, progress, renderPc, pass,
                   prevBuffer>>

\* Variant: the mutex is locked by hand and never unlocked.
SetPixKeepingLock(t) ==
    /\ tile[t].pc = "setpix"
    /\ LET b == tile[t].renderBounds
           p == <<tile[t].j, tile[t].i>>
           hex == FromVector(VecDiv(tile[t].finalColor, tile[t].numSamples))
       IN  /\ colorBuffer' = [colorBuffer EXCEPT ![p] = hex]
           /\ setPixLog' = [setPixLog EXCEPT ![p] = Append(@, t)]
           /\ tile' = [tile EXCEPT ![t] =
                  IF tile[t].j + 1 < b.maxX
                  THEN [@ EXCEPT !.j = @ + 1, !.pc = "sample"]
                  ELSE IF tile[t].i + 1 < b.maxY
                  THEN [@ EXCEPT !.i = @ + 1, !.j = b.minX, !.pc = "sample"]
                  ELSE AfterWorker(b)]
    /\ colorBufferMutex' = colorBufferMutex
    /\ UNCHANGED <<config, renderables, finishedTiles, progress, renderPc, pass,
                   prevBuffer>>

\* Lines 91-92 and the loop increments of lines 65-66: write the pixel,
\* release the lock at the end of the block, go to the next pixel.
SetPix(t) ==
    /\ tile[t].pc = "setpix"
    /\ LET b == tile[t].renderBounds
           p == <<tile[t].j, tile[t].i>>
           hex == FromVector(VecDiv(tile[t].finalColor, tile[t].numSamples))
       IN  /\ colorBuffer' = [colorBuffer EXCEPT ![p] = hex]
           /\ setPixLog' = [setPixLog EXCEPT ![p] = Append(@, t)]
           /\ tile' = [tile EXCEPT ![t] =
                  IF tile[t].j + 1 < b.maxX
                  THEN [@ EXCEPT !.j = @ + 1, !.pc = "sample"]
                  ELSE IF tile[t].i + 1 < b.maxY
                  THEN [@ EXCEPT !.i = @ + 1, !.j = b.minX, !.pc = "sample"]
                  ELSE AfterWorker(b)]
    /\ colorBufferMutex' = colorBufferMutex \ {t}
    /\ UNCHANGED <<config, renderables, finishedTiles, progress, renderPc, pass,
                   prevBuffer>>

\* Variant: the increment is a plain load and store, the load possibly stale.
IncrementFinishedNotAtomic(t) ==
    /\ tile[t].pc = "increment"
    /\ \E stale \in 0 .. finishedTiles : finishedTiles' = stale + 1
    /\ tile' = [tile EXCEPT ![t].pc = "read"]
    /\ UNCHANGED <<config, renderables, colorBuffer, colorBufferMutex, progress,
                   renderPc, pass, prevBuffer, setPixLog>>

\* Line 52: ++finishedTiles
IncrementFinished(t) ==
    /\ tile[t].pc = "increment"
    /\ finishedTiles' = finishedTiles + 1
    /\ tile' = [tile EXCEPT ![t].pc = "read"]
    /\ UNCHANGED <<config, renderables, colorBuffer, colorBufferMutex, progress,
                   renderPc, pass, prevBuffer, setPixLog>>

\* Line 53, the argument: static_cast<float>(finishedTiles) loads the atomic.
ReadFinished(t) ==
    /\ tile[t].pc = "read"
    /\ tile' = [tile EXCEPT ![t].read = finishedTiles, ![t].pc = "log"]
    /\ UNCHANGED <<config, renderables, colorBuffer, colorBufferMutex,
                   finishedTiles, progress, renderPc, pass, prevBuffer, setPixLog>>

\* The percentage 100.f * count / tilesNum, as a fraction.
Percent(count, tilesNum) == [num |-> 100 * count, den |-> tilesNum]

\* Line 53, the call: spdlog::info emits the notification.
EmitProgress(t) ==
    /\ tile[t].pc = "log"
    /\ progress' = Append(progress, Percent(tile[t].read, TilesNum(tilesPerRow)))
    /\ tile' = [tile EXCEPT ![t].read = 0, ![t].pc = "done"]
    /\ UNCHANGED <<config, renderables, colorBuffer, colorBufferMutex,
                   finishedTiles, renderPc, pass, prevBuffer, setPixLog>>

\* Variant: the loop is left as soon as one tile task is done.
LoopNotJoined == \E t \in Tiles : tile[t].pc = "done"

\* The implicit barrier that ends the parallel loop.
LoopJoined == \A t \in Tiles : tile[t].pc = "done"

\* Lines 54-55: Render returns.
RenderReturn ==
    /\ renderPc = "parallel"
    /\ LoopJoined
    /\ renderPc' = "returned"
    /\ UNCHANGED <<config, renderables, colorBuffer, colorBufferMutex,
                   finishedTiles, tile, progress, pass, prevBuffer, setPixLog>>

Next ==
    \/ \E r \in Catalogue : AddRenderable(r)
    \/ RenderBegin
    \/ \E t \in Tiles : StartTile(t)
    \/ \E t \in Tiles : SampleStep(t)
    \/ \E t \in Tiles : LockColorBuffer(t)
    \/ \E t \in Tiles : SetPix(t)
    \/ \E t \in Tiles : IncrementFinished(t)
    \/ \E t \in Tiles : ReadFinished(t)
    \/ \E t \in Tiles : EmitProgress(t)
    \/ RenderReturn

Spec == Init /\ [][Next]_vars

SpecAnyConfig == InitAnyConfig /\ [][Next]_vars

SpecShader == InitShader /\ [][Next]_vars

\* The steps of the task of tile t, run by the thread that took the tile.
TileStep(t) ==
    /\ t \in Tiles
    /\ \/ StartTile(t) \/ SampleStep(t) \/ LockColorBuffer(t) \/ SetPix(t)
       \/ IncrementFinished(t) \/ ReadFinished(t) \/ EmitProgress(t)

\* The threads of the team keep running: a task that can take a step
\* eventually takes one, and the master leaves the loop once it is joined.
FairSpec ==
    /\ InitFair /\ [][Next]_vars
    /\ \A t \in 0 .. (TilesNum(MaxTilesPerRow) - 1) : WF_vars(TileStep(t))
    /\ WF_vars(RenderReturn)

(***************************************************************************)
(* Vocabulary of the properties.                                           *)
(***************************************************************************)
Started(t) == tile[t].pc # "pending"

WorkerCompleted(t) == tile[t].pc \in {"increment", "read", "log", "done"}

Summed(t) == tile[t].pc \in {"lock", "setpix"}

ExactMultiples == sizeX % tilesPerRow = 0 /\ sizeY % tilesPerRow = 0

EmptyBounds(b) == b.minX >= b.maxX \/ b.minY >= b.maxY

DisjointBounds(a, b) ==
    \/ EmptyBounds(a) \/ EmptyBounds(b)
    \/ a.maxX <= b.minX \/ b.maxX <= a.minX
    \/ a.maxY <= b.minY \/ b.maxY <= a.minY

Writers(p) == {setPixLog[p][k] : k \in 1 .. Len(setPixLog[p])}

SomePixelWritten == \E p \in Pixels : setPixLog[p] # <<>>

MeanOfTwo(a, b) == VecDiv(VecAdd(a, b), InitialSamples)

(***************************************************************************)
(* C1. Render is blocking: when Render has returned, the worker of every   *)
(* tile index of the pass has run to completion, none is unstarted or in   *)
(* progress.                                                               *)
(***************************************************************************)
RenderIsBlocking ==
    renderPc = "returned" => \A t \in Tiles : WorkerCompleted(t)

RenderIsBlockingWitness ==
    /\ renderPc = "returned"
    /\ tilesPerRow > 1
    /\ SomePixelWritten

(***************************************************************************)
(* C2. Partitioning completeness: when the width and the height are exact  *)
(* multiples of tilesPerRow, the RenderBounds the tiles of a pass were     *)
(* given cover every pixel of the image exactly once.                      *)
(***************************************************************************)
PartitioningCompleteness ==
    (ExactMultiples /\ \A t \in Tiles : Started(t)) =>
        \A p \in Pixels :
            Cardinality({t \in Tiles : InBounds(tile[t].renderBounds, p)}) = 1

PartitioningCompletenessWitness ==
    /\ tilesPerRow > 1
    /\ ExactMultiples
    /\ \A t \in Tiles : Started(t) /\ ~EmptyBounds(tile[t].renderBounds)

(***************************************************************************)
(* C3. Mutual exclusion on the framebuffer: at most one tile worker is     *)
(* executing SetPix, and a worker executing SetPix holds colorBufferMutex. *)
(***************************************************************************)
FramebufferMutualExclusion ==
    /\ Cardinality({t \in Tiles : tile[t].pc = "setpix"}) <= 1
    /\ \A t \in Tiles : tile[t].pc = "setpix" => colorBufferMutex = {t}

FramebufferMutualExclusionWitness ==
    \E t, u \in Tiles :
        /\ t # u
        /\ tile[t].pc = "setpix"
        /\ tile[u].pc = "lock"

(***************************************************************************)
(* C4. Every pixel is written exactly once per pass, whatever the width,   *)
(* the height and tilesPerRow: when Render has returned, every pixel of    *)
(* the framebuffer has received exactly one SetPix.                        *)
(***************************************************************************)
EveryPixelWrittenOnce ==
    renderPc = "returned" => \A p \in Pixels : Len(setPixLog[p]) = 1

(***************************************************************************)
(* C5. Tiles never overlap: the RenderBounds of two distinct tiles are     *)
(* disjoint rectangles, and no pixel is written by two different tile      *)
(* workers in one pass.                                                    *)
(***************************************************************************)
TilesNeverOverlap ==
    /\ \A t, u \in Tiles :
          (t # u /\ Started(t) /\ Started(u)) =>
              DisjointBounds(tile[t].renderBounds, tile[u].renderBounds)
    /\ \A p \in Pixels : Cardinality(Writers(p)) <= 1

TilesNeverOverlapWitness ==
    /\ renderPc = "returned"
    /\ tilesPerRow > 1
    /\ ~ExactMultiples
    /\ SomePixelWritten

(***************************************************************************)
(* C6. With adaptive sampling disabled, every pixel is averaged over       *)
(* exactly samplesPerPixel samples.                                        *)
(***************************************************************************)
NonAdaptiveTakesAllSamples ==
    \A t \in Tiles :
        (Summed(t) /\ ~bVariableSamplesPerPixel) =>
            tile[t].numSamples = samplesPerPixel

(***************************************************************************)
(* C7. With adaptive sampling enabled and the first two samples within     *)
(* the threshold, the colour written for the pixel is the mean of exactly  *)
(* two samples: numSamples is 2, samples[0] and samples[1] alone are       *)
(* summed, and the framebuffer receives their mean.                        *)
(***************************************************************************)
ConvergedAveragesTwoSamples ==
    /\ \A t \in Tiles :
          (/\ Summed(t)
           /\ bVariableSamplesPerPixel
           /\ ~LengthExceeds(VecSub(tile[t].samples[0], tile[t].samples[1]), SmallFloat))
          => /\ tile[t].numSamples = InitialSamples
             /\ tile[t].finalColor = VecAdd(tile[t].samples[0], tile[t].samples[1])
    /\ \A p \in Pixels :
          (bVariableSamplesPerPixel /\ setPixLog[p] # <<>>) =>
              colorBuffer[p] = FromVector(MeanOfTwo(SamplePixel(renderables, p[2], p[1]),
                                                    SamplePixel(renderables, p[2], p[1])))

ConvergedAveragesTwoSamplesWitness ==
    \E t \in Tiles :
        /\ tile[t].pc = "setpix"
        /\ bVariableSamplesPerPixel
        /\ tile[t].extraBranch
        /\ InitialSamples < samplesPerPixel
        /\ tile[t].samples[0] # Vector3(0)
        /\ tile[t].samples[0] = tile[t].samples[1]

(***************************************************************************)
(* C8. Idempotence: a Render call that follows another with the scene and  *)
(* the configuration unchanged leaves the framebuffer the previous call    *)
(* left, whatever the interleaving of the tile workers in either pass.     *)
(***************************************************************************)
RenderIsIdempotent ==
    (renderPc = "returned" /\ pass > 1) => colorBuffer = prevBuffer

RenderIsIdempotentWitness ==
    /\ renderPc = "returned"
    /\ pass > 1
    /\ tilesPerRow > 1
    /\ \E p, q \in Pixels : /\ colorBuffer[p] # BackgroundColor
                            /\ colorBuffer[q] = BackgroundColor
                            /\ setPixLog[q] # <<>>

(***************************************************************************)
(* C9. Monotonic count progress: within one Render call the counts carried *)
(* by the progress notifications never decrease in emission order.         *)
(***************************************************************************)
MonotonicCountProgress ==
    \A k \in 1 .. (Len(progress) - 1) : progress[k].num <= progress[k + 1].num

(***************************************************************************)
(* C10. With no renderable registered, every pixel of the framebuffer is   *)
(* the background fill colour once Render has returned.                    *)
(***************************************************************************)
EmptySceneIsBackground ==
    (renderPc = "returned" /\ renderables = <<>>) =>
        \A p \in Pixels : colorBuffer[p] = BackgroundColor

EmptySceneIsBackgroundWitness ==
    /\ renderPc = "returned"
    /\ renderables = <<>>
    /\ \E p, q \in Pixels : setPixLog[p] # <<>> /\ setPixLog[q] = <<>>

(***************************************************************************)
(* C11. Configuration errors are rejected up front: with a zero-sized      *)
(* image or tilesPerRow = 0, Render is never entered.                      *)
(***************************************************************************)
ConfigurationErrorsRejected ==
    (sizeX = 0 \/ sizeY = 0 \/ tilesPerRow = 0) => (renderPc = "idle" /\ pass = 0)

(***************************************************************************)
(* C12. Closest-hit selection: for every ray of the image, SamplePixel     *)
(* retains the hit of minimum distance among the hits Trace reports, the   *)
(* earliest-inserted one when several share the minimum, and shades the    *)
(* sample with it.                                                         *)
(***************************************************************************)
Hits(rs, ray) == {k \in 1 .. Len(rs) : Trace(rs[k], ray).hit}

EarliestClosest(rs, ray) ==
    CHOOSE k \in Hits(rs, ray) :
        \A m \in Hits(rs, ray) :
            \/ rs[k].distance < rs[m].distance
            \/ rs[k].distance = rs[m].distance /\ k <= m

ClosestHitSelection ==
    /\ \A p \in Pixels :
          LET ray == GetRay(p[1], p[2])
              found == ClosestHit(renderables, 1, ray, NoHitYet)
          IN  /\ found.wasIntersection = (Hits(renderables, ray) # {})
              /\ Hits(renderables, ray) # {} =>
                    found.closestHit =
                        Trace(renderables[EarliestClosest(renderables, ray)], ray)
    /\ \A t \in Tiles :
          Summed(t) =>
              tile[t].samples[0] =
                  IF Hits(renderables, tile[t].ray) = {}
                  THEN Vector3(0)
                  ELSE SamplePixel(<<renderables[EarliestClosest(renderables, tile[t].ray)]>>,
                                   tile[t].i, tile[t].j)

ClosestHitSelectionWitness ==
    \E t \in Tiles :
        /\ Summed(t)
        /\ \E k, m \in Hits(renderables, tile[t].ray) :
              /\ k < m
              /\ renderables[k].distance = renderables[m].distance
              /\ renderables[k].color # renderables[m].color
              /\ EarliestClosest(renderables, tile[t].ray) = k

(***************************************************************************)
(* C13. Sample accumulator bound: at every point of every pixel's          *)
(* evaluation, numSamples is at most samplesPerPixel, for every            *)
(* samplesPerPixel >= 1.                                                   *)
(***************************************************************************)
AccumulatorBound ==
    \A t \in Tiles : tile[t].numSamples <= samplesPerPixel

(***************************************************************************)
(* C14. The convergence decision depends on the two initial samples only:  *)
(* with adaptive sampling enabled the extra-sample branch is taken exactly *)
(* when samples[0] and samples[1] differ by more than the threshold,       *)
(* whatever the row of the pixel.                                          *)
(***************************************************************************)
ConvergenceDecidedByInitialSamples ==
    \A t \in Tiles :
        (Summed(t) /\ bVariableSamplesPerPixel) =>
            (tile[t].extraBranch <=>
                LengthExceeds(VecSub(tile[t].samples[0], tile[t].samples[1]), SmallFloat))

(***************************************************************************)
(* C20. Accumulator index safety: every index the samples vector is        *)
(* subscripted with during a pixel's evaluation lies in                    *)
(* [0, samplesPerPixel).                                                   *)
(***************************************************************************)
AccumulatorIndexSafety ==
    \A t \in Tiles :
        Summed(t) => tile[t].indexed \subseteq 0 .. (samplesPerPixel - 1)

(***************************************************************************)
(* C15. The framebuffer lock covers only the write: a worker that holds    *)
(* colorBufferMutex is at SetPix, not in SamplePixel, and a worker that is *)
(* about to sample a pixel can do so whoever holds the lock.               *)
(***************************************************************************)
LockCoversOnlyTheWrite ==
    /\ \A t \in Tiles : t \in colorBufferMutex => tile[t].pc = "setpix"
    /\ \A t \in Tiles :
          (tile[t].pc = "sample" /\ colorBufferMutex # {}) => ENABLED SampleStep(t)

LockCoversOnlyTheWriteWitness ==
    \E t, u \in Tiles :
        /\ t # u
        /\ tile[t].pc = "sample"
        /\ u \in colorBufferMutex

(***************************************************************************)
(* C16. Completed-tile counter: finishedTiles counts exactly the tile      *)
(* tasks that have made their increment, each after its worker returned,   *)
(* so it never exceeds the number of returned workers and equals           *)
(* tilesPerRow^2 when Render has returned.                                 *)
(***************************************************************************)
CounterCountsCompletedTiles ==
    /\ finishedTiles = Cardinality({t \in Tiles : tile[t].pc \in {"read", "log", "done"}})
    /\ finishedTiles <= Cardinality({t \in Tiles : WorkerCompleted(t)})
    /\ renderPc = "returned" => finishedTiles = TilesNum(tilesPerRow)

CounterCountsCompletedTilesWitness ==
    /\ renderPc = "returned"
    /\ finishedTiles = TilesNum(tilesPerRow)
    /\ \E k, m \in 1 .. Len(progress) : k # m /\ progress[k] = progress[m]

(***************************************************************************)
(* C17. Frame condition of a tile worker: during a pass a step changes the *)
(* framebuffer only by the SetPix of one worker, at the pixel (j, i) whose *)
(* ray the worker sampled, inside the worker's RenderBounds; the           *)
(* renderables and the configuration are left unchanged.                   *)
(***************************************************************************)
FrameStep ==
    renderPc = "parallel" =>
        /\ <<renderables, samplesPerPixel, bVariableSamplesPerPixel, tilesPerRow>>'
               = <<renderables, samplesPerPixel, bVariableSamplesPerPixel, tilesPerRow>>
        /\ DOMAIN colorBuffer' = DOMAIN colorBuffer
        /\ \A p \in Pixels :
              (colorBuffer'[p] # colorBuffer[p] \/ setPixLog'[p] # setPixLog[p]) =>
                  \E t \in Tiles :
                      /\ tile[t].pc = "setpix"
                      /\ setPixLog'[p] = Append(setPixLog[p], t)
                      /\ p = tile[t].ray
                      /\ p = <<tile[t].j, tile[t].i>>
                      /\ InBounds(tile[t].renderBounds, p)
                      /\ \A q \in Pixels \ {p} : colorBuffer'[q] = colorBuffer[q]

WorkerFrameCondition == [][FrameStep]_vars

WorkerFrameConditionWitness ==
    /\ renderPc = "parallel"
    /\ tilesPerRow > 1
    /\ \E p, q \in Pixels :
          /\ p[1] # p[2]
          /\ setPixLog[p] # <<>>
          /\ colorBuffer[p] # BackgroundColor
          /\ setPixLog[q] = <<>>

(***************************************************************************)
(* C18. Termination: with the threads of the team weakly fair, every       *)
(* Render call eventually returns.                                         *)
(***************************************************************************)
RenderTerminates == (renderPc = "parallel") ~> (renderPc = "returned")

RenderTerminatesWitness ==
    /\ renderPc = "returned"
    /\ pass = MaxPasses
    /\ tilesPerRow > 1
    /\ InitialSamples < samplesPerPixel
    /\ SomePixelWritten

(***************************************************************************)
(* C19. Tile bounds stay inside the framebuffer: minX <= maxX <= width and *)
(* minY <= maxY <= height for every tile, and a worker only samples and    *)
(* writes pixels of the image.                                             *)
(***************************************************************************)
BoundsInsideFramebuffer ==
    /\ \A t \in Tiles :
          Started(t) =>
              /\ tile[t].renderBounds.minX <= tile[t].renderBounds.maxX
              /\ tile[t].renderBounds.maxX <= sizeX
              /\ tile[t].renderBounds.minY <= tile[t].renderBounds.maxY
              /\ tile[t].renderBounds.maxY <= sizeY
    /\ \A t \in Tiles :
          tile[t].pc \in {"sample", "lock", "setpix"} =>
              <<tile[t].j, tile[t].i>> \in Pixels
    /\ \A t \in Tiles : Summed(t) => tile[t].ray \in Pixels

BoundsInsideFramebufferWitness ==
    \E t \in Tiles :
        /\ tile[t].pc = "setpix"
        /\ tilesPerRow > 1
        /\ ~ExactMultiples
        /\ tile[t].renderBounds.maxX < sizeX
        /\ tile[t].j = tile[t].renderBounds.maxX - 1
        /\ tile[t].i = tile[t].renderBounds.maxY - 1

====
